---- MODULE Spec2Model ----
(***************************************************************************)
(* A model of the array operations of napari_process_points_and_surfaces   *)
(* (src/napari_process_points_and_surfaces/__init__.py):                   *)
(* points_to_labels, surface_to_binary_volume, label_to_surface,           *)
(* largest_label_to_surface, isotropic_scale_surface and                   *)
(* surface_from_point_cloud_ball_pivoting.                                 *)
(*                                                                         *)
(* Python objects live in a heap (address -> object) so that aliasing and  *)
(* in-place writes are visible.  numpy float64 is scaled down to a binary  *)
(* floating point format with Precision significand bits, round to         *)
(* nearest, ties to even, and no exponent limit.  The wrapped libraries    *)
(* (skimage marching_cubes / regionprops, vedo binarize, open3d) are not   *)
(* part of the source: marching_cubes is an opaque deterministic function  *)
(* of its mask, binarize returns one of a few volumes, regionprops is      *)
(* modelled by its documented contract.                                    *)
(***************************************************************************)
EXTENDS Integers, Sequences, FiniteSets, TLC

VARIABLES heap, env, last

vars == <<heap, env, last>>

(* ------------------------------ bounds -------------------------------- *)

\* significand bits of the scaled-down float format
Precision == 3
\* longest axis of a reference image
MaxSide == 2
\* largest label value in an input label volume
MaxLabel == 2
\* longest input point list
MaxPoints == 2

(* --------------------------- float arithmetic ------------------------- *)

Abs(x) == IF x < 0 THEN -x ELSE x

Sign(x) == IF x < 0 THEN -1 ELSE 1

RECURSIVE BitLen(_)
BitLen(m) == IF m = 0 THEN 0 ELSE 1 + BitLen(m \div 2)

\* the dyadic rational n / 2^k in lowest terms
RECURSIVE Normal(_, _)
Normal(n, k) ==
    IF k > 0 /\ Abs(n) % 2 = 0
    THEN Normal(Sign(n) * (Abs(n) \div 2), k - 1)
    ELSE [n |-> n, k |-> k]

\* n / 2^k rounded to Precision significant bits, ties to even
RoundSig(n, k) ==
    LET m == Abs(n)
        s == BitLen(m) - Precision
    IN  IF s <= 0
        THEN Normal(n, k)
        ELSE LET q    == m \div (2 ^ s)
                 r    == m % (2 ^ s)
                 half == 2 ^ (s - 1)
                 up   == r > half \/ (r = half /\ q % 2 = 1)
                 q2   == IF up THEN q + 1 ELSE q
             IN  Normal(Sign(n) * q2 * (2 ^ s), k)

\* a float literal: the nearest representable value to n / 2^k
F(n, k) == RoundSig(n, k)

\* python: a * b on floats
FMul(a, b) == RoundSig(a.n * b.n, a.k + b.k)

\* python: a + b on floats
FAdd(a, b) ==
    LET K == IF a.k > b.k THEN a.k ELSE b.k
    IN  RoundSig(a.n * (2 ^ (K - a.k)) + b.n * (2 ^ (K - b.k)), K)

\* python: a - b on floats
FSub(a, b) == FAdd(a, [n |-> -b.n, k |-> b.k])

FLess(a, b) == a.n * (2 ^ b.k) < b.n * (2 ^ a.k)

\* python int(x) and numpy astype(int): truncation toward zero
Trunc(a) == Sign(a.n) * (Abs(a.n) \div (2 ^ a.k))

\* mathematical floor of a float
Floor(a) ==
    IF a.n >= 0
    THEN a.n \div (2 ^ a.k)
    ELSE -(((-a.n) + (2 ^ a.k) - 1) \div (2 ^ a.k))

Half == F(1, 1)

(* ------------------------------ ndarrays ------------------------------ *)

Range(f) == {f[x] : x \in DOMAIN f}

RECURSIVE MaxOf(_)
MaxOf(shape) ==
    IF shape = <<>> THEN 0
    ELSE LET m == MaxOf(Tail(shape))
         IN  IF Head(shape) > m THEN Head(shape) ELSE m

\* the index tuples (0-based) of an array of the given shape
Idx(shape) ==
    {i \in [1 .. Len(shape) -> 0 .. (MaxOf(shape) - 1)] :
        \A d \in 1 .. Len(shape) : i[d] < shape[d]}

\* an ndarray object of the given shape and element type
NdArray(shape, dtype, data) ==
    [kind |-> "ndarray", shape |-> shape, dtype |-> dtype, data |-> data]

\* a (N, D) array from a sequence of N rows of D elements
FromRows(rows, D, dtype) ==
    NdArray(<<Len(rows), D>>, dtype,
            [i \in Idx(<<Len(rows), D>>) |-> rows[i[1] + 1][i[2] + 1]])

\* numpy's conversion of a value to the element type of the array it is stored in
Cast(v, dtype) == IF dtype = "bool" THEN (IF v = 0 THEN 0 ELSE 1) ELSE v

\* python/numpy index normalisation: negative indices count from the end,
\* anything else out of range is an IndexError (here -1)
PyIndex(i, n) ==
    IF 0 <= i /\ i < n THEN i
    ELSE IF -n <= i /\ i < 0 THEN i + n
    ELSE -1

(* -------------------------------- heap -------------------------------- *)

None == 0

FreshAddr(h) ==
    CHOOSE a \in 1 .. (Cardinality(DOMAIN h) + 1) :
        a \notin DOMAIN h /\ \A b \in 1 .. (a - 1) : b \in DOMAIN h

Store(h, a, obj) == [x \in DOMAIN h \cup {a} |-> IF x = a THEN obj ELSE h[x]]

\* in-place element assignment arr[idx] = v
SetItem(h, a, idx, v) ==
    [h EXCEPT ![a].data[idx] = Cast(v, h[a].dtype)]

\* the objects reachable from the given roots (tuples hold addresses)
Reachable(h, roots) ==
    roots \cup UNION {IF h[a].kind = "tuple" THEN Range(h[a].items) ELSE {} :
                      a \in roots \cap DOMAIN h}

Collect(h, roots) == [a \in Reachable(h, roots) \cap DOMAIN h |-> h[a]]

\* what a call hands back: the heap after it, the returned object, the
\* exception raised ("none" when it returned), and what crossed the
\* boundary to a wrapped library
Outcome(h, ret, exc, lib) == [heap |-> h, ret |-> ret, exc |-> exc, lib |-> lib]

(* --------------------------- points_to_labels ------------------------- *)

\* labels_stack = np.zeros(as_large_as_image.shape, dtype=int)
np_zeros(shape, dtype) == NdArray(shape, dtype, [i \in Idx(shape) |-> 0])

\* mutant: the index is the truncated coordinate, the + 0.5 forgotten
RoundIndexNoHalf(c) == Trunc(c)

\* int(p[d] + 0.5): the index expression of one axis
RoundIndex(c) == Trunc(FAdd(c, Half))

\* one iteration writes labels_stack[int(p[0]+0.5), ...] = i + 1; p[d] beyond
\* the point's length and an index outside the axis both raise IndexError
RECURSIVE points_to_labels_loop(_, _, _, _)
points_to_labels_loop(h, labels_stack, points_data, i) ==
    LET pts == h[points_data]
        shp == h[labels_stack].shape
        nd  == Len(shp)
    IN  IF i >= pts.shape[1]
        THEN Outcome(h, labels_stack, "none", None)
        ELSE IF nd = 3 \/ nd = 2
        THEN IF pts.shape[2] < nd
             THEN Outcome(h, None, "IndexError", None)
             ELSE LET idx == [d \in 1 .. nd |->
                                PyIndex(RoundIndex(pts.data[<<i, d - 1>>]), shp[d])]
                  IN  IF \E d \in 1 .. nd : idx[d] = -1
                      THEN Outcome(h, None, "IndexError", None)
                      ELSE points_to_labels_loop(
                               SetItem(h, labels_stack, idx, i + 1),
                               labels_stack, points_data, i + 1)
        ELSE Outcome(h, None, "NotImplementedError", None)

\* mutant: the labels are written into the reference image itself
points_to_labels_inplace(h, points_data, as_large_as_image) ==
    points_to_labels_loop(h, as_large_as_image, points_data, 0)

points_to_labels(h, points_data, as_large_as_image) ==
    LET labels_stack == FreshAddr(h)
        h1 == Store(h, labels_stack, np_zeros(h[as_large_as_image].shape, "int"))
    IN  points_to_labels_loop(h1, labels_stack, points_data, 0)

(* ------------------ label_to_surface, largest_label_to_surface -------- *)

\* mutant: the mask takes every label from label_id up
label_mask_from(labels, label_id) ==
    NdArray(labels.shape, "bool",
            [i \in Idx(labels.shape) |-> IF labels.data[i] >= label_id THEN 1 ELSE 0])

\* binary = np.asarray(labels == label_id): a new boolean array
label_mask(labels, label_id) ==
    NdArray(labels.shape, "bool",
            [i \in Idx(labels.shape) |-> IF labels.data[i] = label_id THEN 1 ELSE 0])

\* one array of skimage's marching_cubes(binary, 0): the library is not part
\* of the source, its result is a fixed but unknown function of the mask
marching_cubes(binary, field) ==
    [kind |-> "ndarray", library |-> "marching_cubes", field |-> field,
     volume |-> <<binary.shape, binary.data>>]

\* a new tuple object holding the given new arrays
NewTuple(h, arrays) ==
    LET RECURSIVE put(_, _, _)
        put(hh, k, addrs) ==
            IF k > Len(arrays)
            THEN LET t == FreshAddr(hh)
                 IN  [heap |-> Store(hh, t, [kind |-> "tuple", items |-> addrs]),
                      addr |-> t]
            ELSE LET a == FreshAddr(hh)
                 IN  put(Store(hh, a, arrays[k]), k + 1, Append(addrs, a))
    IN  put(h, 1, <<>>)

label_to_surface(h, labels, label_id) ==
    LET binary == label_mask(h[labels], label_id)
        b      == FreshAddr(h)
        h1     == Store(h, b, binary)
        t      == NewTuple(h1, <<marching_cubes(binary, "vertices"),
                                 marching_cubes(binary, "faces"),
                                 marching_cubes(binary, "values")>>)
    IN  Outcome(t.heap, t.addr, "none", binary)

\* the set s as an ascending sequence
RECURSIVE Ascending(_)
Ascending(s) ==
    IF s = {} THEN <<>>
    ELSE LET m == CHOOSE x \in s : \A y \in s : x <= y
         IN  <<m>> \o Ascending(s \ {m})

\* skimage's regionprops(labels): one region per positive label present, in
\* ascending label order, with its voxel count as area
regionprops(labels) ==
    LET present == {v \in Range(labels.data) : v > 0}
        order   == Ascending(present)
    IN  [k \in 1 .. Len(order) |->
            [label |-> order[k],
             area  |-> Cardinality({i \in Idx(labels.shape) :
                                       labels.data[i] = order[k]})]]

\* mutant: the last index of the maximum
np_argmax_last(xs) ==
    (CHOOSE k \in 1 .. Len(xs) :
        /\ \A j \in 1 .. Len(xs) : xs[j] <= xs[k]
        /\ \A j \in (k + 1) .. Len(xs) : xs[j] < xs[k]) - 1

\* np.argmax of a non-empty list: the first (0-based) index of the maximum
np_argmax(xs) ==
    (CHOOSE k \in 1 .. Len(xs) :
        /\ \A j \in 1 .. Len(xs) : xs[j] <= xs[k]
        /\ \A j \in 1 .. (k - 1) : xs[j] < xs[k]) - 1

largest_label_to_surface(h, labels) ==
    LET statistics == regionprops(h[labels])
        areas       == [k \in 1 .. Len(statistics) |-> statistics[k].area]
        labels_list == [k \in 1 .. Len(statistics) |-> statistics[k].label]
    IN  IF Len(areas) = 0
        THEN Outcome(h, None, "ValueError", None)
        ELSE label_to_surface(h, labels, labels_list[np_argmax(areas) + 1])

(* ------------------------ isotropic_scale_surface --------------------- *)

\* mutant: the factor is added to every element
np_add(arr, scale_factor) ==
    NdArray(arr.shape, "float",
            [i \in Idx(arr.shape) |-> FAdd(arr.data[i], scale_factor)])

\* result[0] * scale_factor: a new array, every element multiplied
np_mul(arr, scale_factor) ==
    NdArray(arr.shape, "float",
            [i \in Idx(arr.shape) |-> FMul(arr.data[i], scale_factor)])

\* result = list(surface); result[0] = result[0] * scale_factor;
\* return tuple(result): a new tuple whose first item is a new array and whose
\* other items are the very objects of the input tuple
isotropic_scale_surface(h, surface, scale_factor) ==
    LET result == h[surface].items
        v      == FreshAddr(h)
        h1     == Store(h, v, np_mul(h[result[1]], scale_factor))
        t      == FreshAddr(h1)
        h2     == Store(h1, t, [kind |-> "tuple",
                                items |-> [result EXCEPT ![1] = v]])
    IN  Outcome(h2, t, "none", None)

(* ------------------------ surface_to_binary_volume -------------------- *)

FMinOf(S) == CHOOSE x \in S : \A y \in S : ~FLess(y, x)

FMaxOf(S) == CHOOSE x \in S : \A y \in S : ~FLess(x, y)

Column(vertices, k) ==
    {vertices.data[<<i, k - 1>>] : i \in 0 .. (vertices.shape[1] - 1)}

\* boundaries_l = np.min(vertices, axis=0).astype(int)
boundaries_l(vertices) == [k \in 1 .. 3 |-> Trunc(FMinOf(Column(vertices, k)))]

\* mutant: the upper bound includes the voxel of the greatest vertex
boundaries_r_inclusive(vertices) ==
    [k \in 1 .. 3 |-> Trunc(FMaxOf(Column(vertices, k))) + 1]

\* boundaries_r = np.max(vertices, axis=0).astype(int)
boundaries_r(vertices) == [k \in 1 .. 3 |-> Trunc(FMaxOf(Column(vertices, k)))]

\* the indices a python slice start:stop selects on an axis of length n
py_slice(start, stop, n) ==
    LET clamp(x) == IF x < 0 THEN (IF x + n < 0 THEN 0 ELSE x + n)
                    ELSE (IF x > n THEN n ELSE x)
    IN  clamp(start) .. (clamp(stop) - 1)

\* mutant: the output starts as a copy of the reference image
np_copy_like(image) == image

\* binary_image = np.zeros_like(as_large_as_image)
np_zeros_like(image) == np_zeros(image.shape, image.dtype)

\* the region binary_image[l0:r0, l1:r1, l2:r2] of a 3-D array, per axis
SliceOf(vertices, shape) ==
    [k \in 1 .. 3 |-> py_slice(boundaries_l(vertices)[k],
                                boundaries_r(vertices)[k], shape[k])]

SliceShape(region) == [k \in 1 .. 3 |-> Cardinality(region[k])]

\* numpy broadcasting of a 3-D value into a 3-D region
Broadcastable(from, to) == \A k \in 1 .. 3 : from[k] = to[k] \/ from[k] = 1

\* region = value, element by element, written into the array at address a
SetSlice(h, a, region, value) ==
    LET lo(k) == CHOOSE x \in region[k] : \A y \in region[k] : x <= y
        src(i) == [k \in 1 .. 3 |-> IF value.shape[k] = 1 THEN 0 ELSE i[k] - lo(k)]
    IN  [h EXCEPT ![a].data =
            [i \in DOMAIN h[a].data |->
                IF \A k \in 1 .. 3 : i[k] \in region[k]
                THEN Cast(value.data[src(i)], h[a].dtype)
                ELSE h[a].data[i]]]

\* binarized is what vedo's my_mesh.binarize().tonumpy() returned for the mesh
surface_to_binary_volume(h, surface, as_large_as_image, binarized) ==
    LET vertices     == h[h[surface].items[1]]
        binary_image == FreshAddr(h)
        h1           == Store(h, binary_image, np_zeros_like(h[as_large_as_image]))
        shape        == h1[binary_image].shape
    IN  IF vertices.shape[1] = 0
        THEN Outcome(h, None, "ValueError", None)
        ELSE IF Len(shape) < 3
        THEN Outcome(h1, None, "IndexError", binarized)
        ELSE LET region == SliceOf(vertices, shape)
             IN  IF ~Broadcastable(binarized.shape, SliceShape(region))
                 THEN Outcome(h1, None, "ValueError", binarized)
                 ELSE Outcome(SetSlice(h1, binary_image, region, binarized),
                              binary_image, "none", binarized)

(* --------------- surface_from_point_cloud_ball_pivoting --------------- *)

\* vertices, triangles of an open3d mesh become (vertices, faces, values)
\* with values = np.ones((vertices.shape[0]))
to_surface(h, mesh) ==
    NewTuple(h, <<mesh.vertices, mesh.triangles,
                  NdArray(<<mesh.vertices.shape[1]>>, "float",
                          [i \in Idx(<<mesh.vertices.shape[1]>>) |-> F(1, 0)])>>)

\* mutant: three radii whatever delta_radius is
ball_pivoting_radii_always_three(radius, delta_radius) ==
    <<FSub(radius, delta_radius), radius, FAdd(radius, delta_radius)>>

\* the ball radii handed to open3d
ball_pivoting_radii(radius, delta_radius) ==
    IF delta_radius = F(0, 0)
    THEN <<radius>>
    ELSE <<FSub(radius, delta_radius), radius, FAdd(radius, delta_radius)>>

\* mesh is what open3d's create_from_point_cloud_ball_pivoting returned
surface_from_point_cloud_ball_pivoting(h, points_data, radius, delta_radius, mesh) ==
    LET radii == ball_pivoting_radii(radius, delta_radius)
        t     == to_surface(h, mesh)
    IN  Outcome(t.heap, t.addr, "none", radii)

(* ------------------------ open3d mesh operations ---------------------- *)

\* open3d.utility.Vector3dVector(data): a new (N, 3) vector of doubles
to_vector_d(data) ==
    NdArray(data.shape, "float", [i \in DOMAIN data.data |-> Cast(data.data[i], "float")])

\* open3d.utility.Vector3iVector(data): a new (N, 3) vector of integers
to_vector_i(data) ==
    NdArray(data.shape, "int", [i \in DOMAIN data.data |-> Cast(data.data[i], "int")])

\* mutant: the mesh also carries the per-vertex values of the surface
to_mesh_with_values(h, data) ==
    [vertices |-> to_vector_d(h[h[data].items[1]]),
     triangles |-> to_vector_i(h[h[data].items[2]]),
     values |-> IF Len(h[data].items) > 2 THEN h[h[data].items[3]]
                ELSE NdArray(<<0>>, "float", <<>>)]

\* open3d.geometry.TriangleMesh(to_vector_d(data[0]), to_vector_i(data[1]))
to_mesh(h, data) ==
    [vertices |-> to_vector_d(h[h[data].items[1]]),
     triangles |-> to_vector_i(h[h[data].items[2]])]

\* an open3d point cloud whose points are to_vector_d(data)
to_point_cloud(h, data) == [points |-> to_vector_d(h[data])]

\* what crosses to open3d: the method called, the geometry it is called on and
\* its arguments; what open3d computes from these is not part of the source
open3d_call(method, geometry, arguments) ==
    [method |-> method, geometry |-> geometry, arguments |-> arguments]

\* new_mesh is what open3d's compute_convex_hull returned
convex_hull(h, surface, new_mesh) ==
    LET mesh == to_mesh(h, surface)
        t    == to_surface(h, new_mesh)
    IN  Outcome(t.heap, t.addr, "none",
                open3d_call("compute_convex_hull", mesh, <<>>))

\* mesh_out is what open3d's filter_smooth_simple returned
filter_smooth_simple(h, surface, number_of_iterations, mesh_out) ==
    LET mesh_in == to_mesh(h, surface)
        t       == to_surface(h, mesh_out)
    IN  Outcome(t.heap, t.addr, "none",
                open3d_call("filter_smooth_simple", mesh_in, <<number_of_iterations>>))

filter_smooth_laplacian(h, surface, number_of_iterations, mesh_out) ==
    LET mesh_in == to_mesh(h, surface)
        t       == to_surface(h, mesh_out)
    IN  Outcome(t.heap, t.addr, "none",
                open3d_call("filter_smooth_laplacian", mesh_in, <<number_of_iterations>>))

filter_smooth_taubin(h, surface, number_of_iterations, mesh_out) ==
    LET mesh_in == to_mesh(h, surface)
        t       == to_surface(h, mesh_out)
    IN  Outcome(t.heap, t.addr, "none",
                open3d_call("filter_smooth_taubin", mesh_in, <<number_of_iterations>>))

\* contraction is always SimplificationContraction.Average
simplify_vertex_clustering(h, surface, voxel_size, mesh_out) ==
    LET mesh_in == to_mesh(h, surface)
        t       == to_surface(h, mesh_out)
    IN  Outcome(t.heap, t.addr, "none",
                open3d_call("simplify_vertex_clustering", mesh_in,
                            <<voxel_size, "Average">>))

simplify_quadric_decimation(h, surface, target_number_of_triangles, mesh_out) ==
    LET mesh_in == to_mesh(h, surface)
        t       == to_surface(h, mesh_out)
    IN  Outcome(t.heap, t.addr, "none",
                open3d_call("simplify_quadric_decimation", mesh_in,
                            <<target_number_of_triangles>>))

subdivide_loop(h, surface, number_of_iterations, mesh_out) ==
    LET mesh_in == to_mesh(h, surface)
        t       == to_surface(h, mesh_out)
    IN  Outcome(t.heap, t.addr, "none",
                open3d_call("subdivide_loop", mesh_in, <<number_of_iterations>>))

\* mesh_out is what the point cloud's compute_convex_hull returned
points_to_convex_hull_surface(h, points_data, mesh_out) ==
    LET point_cloud == to_point_cloud(h, points_data)
        t           == to_surface(h, mesh_out)
    IN  Outcome(t.heap, t.addr, "none",
                open3d_call("compute_convex_hull", point_cloud, <<>>))

\* mesh is what create_from_point_cloud_alpha_shape returned
surface_from_point_cloud_alpha_shape(h, points_data, alpha, mesh) ==
    LET pcd == to_point_cloud(h, points_data)
        t   == to_surface(h, mesh)
    IN  Outcome(t.heap, t.addr, "none",
                open3d_call("create_from_point_cloud_alpha_shape", pcd, <<alpha>>))

(* ------------------------------- inputs ------------------------------- *)

\* rows of 2-D and of 3-D point lists; coordinates that round up, round to a
\* shared voxel, are negative, and lie beyond the image
PointRows(D) ==
    IF D = 2
    THEN { <<F(1, 1), F(5, 2)>>, <<F(5, 2), F(1, 1)>>, <<F(-3, 2), F(0, 0)>>,
           <<F(5, 1), F(0, 0)>>, <<F(7, 4), F(0, 0)>> }
    ELSE { <<F(0, 0), F(0, 0), F(0, 0)>>, <<F(0, 0), F(1, 1), F(5, 2)>>,
           <<F(1, 2), F(5, 2), F(1, 1)>>, <<F(0, 0), F(-3, 1), F(1, 0)>>,
           <<F(0, 0), F(0, 0), F(5, 1)>> }

PointLists ==
    UNION {{FromRows(rows, D, "float") :
               rows \in UNION {[1 .. n -> PointRows(D)] : n \in 0 .. MaxPoints}} :
           D \in {2, 3}}

\* shapes of one to four dimensions
Shapes == {<<MaxSide>>, <<MaxSide, 2>>, <<1, MaxSide, 2>>, <<1, 1, MaxSide, 2>>}

RECURSIVE SumOf(_)
SumOf(i) == IF i = <<>> THEN 0 ELSE Head(i) + SumOf(Tail(i))

\* an image whose voxel values grow along every axis
Ramp(shape, dtype) ==
    NdArray(shape, dtype,
            [i \in Idx(shape) |-> Cast(SumOf(i) % (MaxLabel + 1), dtype)])

RefImages ==
    {Ramp(shape, "int") : shape \in Shapes} \cup {Ramp(<<1, MaxSide, 2>>, "bool")}

\* input surfaces: vertex rows, face rows, and whether the tuple carries values
Row(a, b, c) == <<a, b, c>>

SurfaceInputs ==
    { [vertices |-> <<Row(F(0, 0), F(0, 0), F(0, 0)), Row(F(2, 0), F(0, 0), F(0, 0)),
                      Row(F(0, 0), F(2, 0), F(0, 0)), Row(F(0, 0), F(0, 0), F(2, 0))>>,
       faces |-> <<Row(0, 1, 2), Row(0, 1, 3), Row(0, 2, 3), Row(1, 2, 3)>>,
       values |-> TRUE],
      [vertices |-> <<Row(F(1, 1), F(0, 0), F(0, 0)), Row(F(7, 2), F(1, 0), F(0, 0)),
                      Row(F(1, 0), F(5, 2), F(1, 0))>>,
       faces |-> <<Row(0, 1, 2)>>,
       values |-> FALSE],
      [vertices |-> <<Row(F(1, 0), F(1, 0), F(1, 0)), Row(F(5, 1), F(2, 0), F(2, 0)),
                      Row(F(3, 0), F(3, 1), F(2, 0))>>,
       faces |-> <<Row(0, 1, 2)>>,
       values |-> TRUE],
      [vertices |-> <<Row(F(-3, 1), F(0, 0), F(0, 0)), Row(F(1, 0), F(1, 0), F(1, 0)),
                      Row(F(0, 0), F(2, 0), F(2, 0))>>,
       faces |-> <<Row(0, 1, 2)>>,
       values |-> FALSE],
      [vertices |-> <<Row(F(0, 0), F(0, 0), F(0, 0)), Row(F(5, 0), F(2, 0), F(2, 0)),
                      Row(F(1, 0), F(1, 0), F(1, 0))>>,
       faces |-> <<Row(0, 1, 2), Row(2, 1, 0)>>,
       values |-> TRUE] }

\* reference images for rendering: 3-D of two element types, and a 2-D one
RenderImages ==
    {Ramp(<<MaxSide + 1, 2, 2>>, "int"), Ramp(<<MaxSide + 1, 2, 2>>, "bool"),
     Ramp(<<MaxSide, 2>>, "int")}

ScaleFactors == {F(1, 0), F(1, 1), F(3, 0), F(5, 0), F(5, 2)}

Radii == {F(5, 0), F(1, 0)}

DeltaRadii == {F(0, 0), F(1, 0), F(5, 0)}

\* volumes vedo's binarize may return for a mesh whose bounding box selects a
\* region of the given shape: of that shape or one longer, empty, full or mixed
BinarizeOutputs(shape) ==
    {NdArray(shp, "uint8", [i \in Idx(shp) |-> pattern[(SumOf(i) % 2) + 1]]) :
        shp \in {shape, [shape EXCEPT ![1] = @ + 1]},
        pattern \in {<<0, 0>>, <<255, 255>>, <<255, 0>>}}

\* meshes open3d may return: no vertices at all, or one triangle
MeshOutputs ==
    { [vertices |-> FromRows(<<>>, 3, "float"), triangles |-> FromRows(<<>>, 3, "int")],
      [vertices |-> FromRows(<<Row(F(0, 0), F(0, 0), F(0, 0)), Row(F(1, 0), F(0, 0), F(0, 0)),
                               Row(F(0, 0), F(1, 0), F(1, 0))>>, 3, "float"),
       triangles |-> FromRows(<<Row(0, 1, 2)>>, 3, "int")] }

\* arguments of the open3d mesh operations: iteration counts, and the default
\* voxel size and triangle target
Iterations == {1, 2}

VoxelSizes == {F(5, 0)}

TriangleTargets == {500}

Alphas == {F(5, 0), F(1, 1)}

(* ------------------------------- calls -------------------------------- *)

NoCall ==
    [op |-> "none", args |-> <<>>, params |-> <<>>, ret |-> None,
     exc |-> "none", lib |-> None, chained |-> FALSE]

\* the objects the caller's input variables name
InputAddrs == Range(env) \ {None}

\* the result of a call on inputs may be passed on to the next call
Chainable == last.ret # None /\ ~last.chained

\* the objects alive when a call with these arguments starts: an earlier
\* result that is not passed on has been dropped
Live(args) == Collect(heap, InputAddrs \cup Range(args))

\* the caller keeps its inputs, the arguments of the call and the result;
\* every other object is garbage
Return(op, args, params, r) ==
    /\ heap' = Collect(r.heap, InputAddrs \cup Range(args)
                               \cup (IF r.ret # None THEN {r.ret} ELSE {}))
    /\ last' = [op |-> op, args |-> args, params |-> params, ret |-> r.ret,
                exc |-> r.exc, lib |-> r.lib,
                chained |-> last.ret # None /\ last.ret \in Range(args)]
    /\ UNCHANGED env

\* arrays that can serve as reference image: the input image or a returned volume
ImageArgs ==
    (IF env.image # None THEN {env.image} ELSE {})
    \cup (IF Chainable /\ heap[last.ret].kind = "ndarray" THEN {last.ret} ELSE {})

CallPointsToLabels ==
    /\ env.points # None
    /\ \E img \in ImageArgs :
          LET args == <<env.points, img>>
          IN  Return("points_to_labels", args, <<>>,
                     points_to_labels(Live(args), env.points, img))

\* label volumes handed to skimage: 3-D integer arrays
IsLabels(obj) ==
    obj.kind = "ndarray" /\ "data" \in DOMAIN obj /\ obj.dtype = "int"
    /\ Len(obj.shape) = 3

LabelArgs == {a \in ImageArgs : IsLabels(heap[a])}

CallLabelToSurface ==
    \E labels \in LabelArgs, label_id \in 0 .. (MaxLabel + 1) :
        Return("label_to_surface", <<labels>>, <<label_id>>,
               label_to_surface(Live(<<labels>>), labels, label_id))

CallLargestLabelToSurface ==
    \E labels \in LabelArgs :
        Return("largest_label_to_surface", <<labels>>, <<>>,
               largest_label_to_surface(Live(<<labels>>), labels))

\* surfaces whose vertex array holds coordinates: an input surface or a
\* returned one (marching cubes results are opaque to the model)
IsSurface(h, a) ==
    /\ h[a].kind = "tuple"
    /\ "data" \in DOMAIN h[h[a].items[1]]

SurfaceArgs ==
    (IF env.surface # None THEN {env.surface} ELSE {})
    \cup (IF Chainable /\ IsSurface(heap, last.ret) THEN {last.ret} ELSE {})

CallIsotropicScaleSurface ==
    \E surface \in SurfaceArgs, scale_factor \in ScaleFactors :
        Return("isotropic_scale_surface", <<surface>>, <<scale_factor>>,
               isotropic_scale_surface(Live(<<surface>>), surface, scale_factor))

\* the shape of the region the call will select
RegionShape(surface, img) ==
    LET vertices == heap[heap[surface].items[1]]
    IN  IF vertices.shape[1] = 0 \/ Len(heap[img].shape) < 3
        THEN <<1, 1, 1>>
        ELSE SliceShape(SliceOf(vertices, heap[img].shape))

CallSurfaceToBinaryVolume ==
    \E surface \in SurfaceArgs :
      \E img \in {a \in ImageArgs : Len(heap[a].shape) <= 3} :
        \E binarized \in BinarizeOutputs(RegionShape(surface, img)) :
          LET args == <<surface, img>>
          IN  Return("surface_to_binary_volume", args, <<>>,
                     surface_to_binary_volume(Live(args), surface, img, binarized))

CallSurfaceFromPointCloudBallPivoting ==
    /\ env.cloud # None
    /\ \E radius \in Radii, delta_radius \in DeltaRadii, mesh \in MeshOutputs :
          LET args == <<env.cloud>>
          IN  Return("surface_from_point_cloud_ball_pivoting", args,
                     <<radius, delta_radius>>,
                     surface_from_point_cloud_ball_pivoting(
                         Live(args), env.cloud, radius, delta_radius, mesh))

CallConvexHull ==
    \E surface \in SurfaceArgs, new_mesh \in MeshOutputs :
        Return("convex_hull", <<surface>>, <<>>,
               convex_hull(Live(<<surface>>), surface, new_mesh))

CallFilterSmoothSimple ==
    \E surface \in SurfaceArgs, number_of_iterations \in Iterations, mesh_out \in MeshOutputs :
        Return("filter_smooth_simple", <<surface>>, <<number_of_iterations>>,
               filter_smooth_simple(Live(<<surface>>), surface, number_of_iterations, mesh_out))

CallFilterSmoothLaplacian ==
    \E surface \in SurfaceArgs, number_of_iterations \in Iterations, mesh_out \in MeshOutputs :
        Return("filter_smooth_laplacian", <<surface>>, <<number_of_iterations>>,
               filter_smooth_laplacian(Live(<<surface>>), surface, number_of_iterations, mesh_out))

CallFilterSmoothTaubin ==
    \E surface \in SurfaceArgs, number_of_iterations \in Iterations, mesh_out \in MeshOutputs :
        Return("filter_smooth_taubin", <<surface>>, <<number_of_iterations>>,
               filter_smooth_taubin(Live(<<surface>>), surface, number_of_iterations, mesh_out))

CallSimplifyVertexClustering ==
    \E surface \in SurfaceArgs, voxel_size \in VoxelSizes, mesh_out \in MeshOutputs :
        Return("simplify_vertex_clustering", <<surface>>, <<voxel_size>>,
               simplify_vertex_clustering(Live(<<surface>>), surface, voxel_size, mesh_out))

CallSimplifyQuadricDecimation ==
    \E surface \in SurfaceArgs, target_number_of_triangles \in TriangleTargets, mesh_out \in MeshOutputs :
        Return("simplify_quadric_decimation", <<surface>>, <<target_number_of_triangles>>,
               simplify_quadric_decimation(Live(<<surface>>), surface, target_number_of_triangles, mesh_out))

CallSubdivideLoop ==
    \E surface \in SurfaceArgs, number_of_iterations \in Iterations, mesh_out \in MeshOutputs :
        Return("subdivide_loop", <<surface>>, <<number_of_iterations>>,
               subdivide_loop(Live(<<surface>>), surface, number_of_iterations, mesh_out))

CallPointsToConvexHullSurface ==
    /\ env.cloud # None
    /\ \E mesh_out \in MeshOutputs :
          Return("points_to_convex_hull_surface", <<env.cloud>>, <<>>,
                 points_to_convex_hull_surface(Live(<<env.cloud>>), env.cloud, mesh_out))

CallSurfaceFromPointCloudAlphaShape ==
    /\ env.cloud # None
    /\ \E alpha \in Alphas, mesh \in MeshOutputs :
          Return("surface_from_point_cloud_alpha_shape", <<env.cloud>>, <<alpha>>,
                 surface_from_point_cloud_alpha_shape(
                     Live(<<env.cloud>>), env.cloud, alpha, mesh))

(* ---------------------------- specification --------------------------- *)

SurfaceHeap(s) ==
    (3 :> FromRows(s.vertices, 3, "float"))
    @@ (4 :> FromRows(s.faces, 3, "int"))
    @@ (IF s.values
        THEN (5 :> NdArray(<<Len(s.vertices)>>, "float",
                           [i \in Idx(<<Len(s.vertices)>>) |-> F(i[1], 0)]))
             @@ (6 :> [kind |-> "tuple", items |-> <<3, 4, 5>>])
        ELSE (6 :> [kind |-> "tuple", items |-> <<3, 4>>]))

\* a caller holding a point list and a reference image
InitPoints ==
    /\ \E pts \in PointLists, img \in RefImages :
          heap = (1 :> pts) @@ (2 :> img)
    /\ env = [points |-> 1, image |-> 2, surface |-> None, cloud |-> None]
    /\ last = NoCall

\* every label volume of one small 3-D shape
LabelVolumes ==
    {NdArray(<<1, 2, 2>>, "int", d) : d \in [Idx(<<1, 2, 2>>) -> 0 .. MaxLabel]}

\* a caller holding a label volume
InitLabels ==
    /\ \E img \in LabelVolumes : heap = (2 :> img)
    /\ env = [points |-> None, image |-> 2, surface |-> None, cloud |-> None]
    /\ last = NoCall

\* a caller holding a surface and a reference image
InitSurface ==
    /\ \E s \in SurfaceInputs, img \in RenderImages :
          heap = (2 :> img) @@ SurfaceHeap(s)
    /\ env = [points |-> None, image |-> 2, surface |-> 6, cloud |-> None]
    /\ last = NoCall

\* a caller holding a 3-D point cloud of at most one point
InitCloud ==
    /\ \E pts \in {c \in PointLists : c.shape[2] = 3 /\ c.shape[1] <= 1} :
          heap = (1 :> pts)
    /\ env = [points |-> None, image |-> None, surface |-> None, cloud |-> 1]
    /\ last = NoCall

\* a caller holding points, a label image and a surface at once
InitSession ==
    /\ \E row \in PointRows(3), s \in {x \in SurfaceInputs : Len(x.vertices) = 4} :
          heap = (1 :> FromRows(<<row>>, 3, "float"))
                 @@ (2 :> Ramp(<<MaxSide + 1, 2, 2>>, "int"))
                 @@ SurfaceHeap(s)
    /\ env = [points |-> 1, image |-> 2, surface |-> 6, cloud |-> None]
    /\ last = NoCall

Init == InitPoints \/ InitLabels \/ InitSurface \/ InitCloud \/ InitSession

Next ==
    \/ CallPointsToLabels
    \/ CallLabelToSurface
    \/ CallLargestLabelToSurface
    \/ CallIsotropicScaleSurface
    \/ CallSurfaceToBinaryVolume
    \/ CallSurfaceFromPointCloudBallPivoting
    \/ CallConvexHull
    \/ CallFilterSmoothSimple
    \/ CallFilterSmoothLaplacian
    \/ CallFilterSmoothTaubin
    \/ CallSimplifyVertexClustering
    \/ CallSimplifyQuadricDecimation
    \/ CallSubdivideLoop
    \/ CallPointsToConvexHullSurface
    \/ CallSurfaceFromPointCloudAlphaShape

Spec == Init /\ [][Next]_vars

(* ------------------------------- claims ------------------------------- *)

\* the value of a returned surface: its arrays, in tuple order
SurfaceValue(h, t) == [k \in 1 .. Len(h[t].items) |-> h[h[t].items[k]]]

WithObject(h, a, obj) == [h EXCEPT ![a] = obj]

\* arrays of the same shape and element type that differ in voxel values
Variants(arr, values) ==
    {[arr EXCEPT !.data = [arr.data EXCEPT ![i] = Cast(v, arr.dtype)]] :
        i \in DOMAIN arr.data, v \in values}
    \cup {[arr EXCEPT !.data = [i \in DOMAIN arr.data |-> Cast(v, arr.dtype)]] :
             v \in values}

\* the heap the last call started from
HeapBefore == Live(last.args)

\* the arguments of a points_to_labels call
PtlPoints == heap[last.args[1]]

PtlImage == heap[last.args[2]]

\* C1 (as claimed): a points_to_labels call raises NotImplementedError exactly
\* when the reference image is neither 2-D nor 3-D, whatever the point list,
\* the empty list included.
C1_RaisesOutside2D3D ==
    last.op = "points_to_labels" =>
        ((Len(PtlImage.shape) \notin {2, 3}) <=> (last.exc = "NotImplementedError"))

\* floor(c + 0.5) of the d-th coordinate of point i, per axis of the image
RoundedVoxel(points, i, nd) ==
    [d \in 1 .. nd |-> Floor(FAdd(points.data[<<i, d - 1>>], Half))]

\* a 2-D or 3-D image, and every point non-negative and rounding into it
C2_Pre ==
    /\ last.op = "points_to_labels"
    /\ Len(PtlImage.shape) \in {2, 3}
    /\ PtlPoints.shape[2] >= Len(PtlImage.shape)
    /\ \A i \in 0 .. (PtlPoints.shape[1] - 1) :
         \A d \in 1 .. Len(PtlImage.shape) :
            /\ PtlPoints.data[<<i, d - 1>>].n >= 0
            /\ RoundedVoxel(PtlPoints, i, Len(PtlImage.shape))[d] < PtlImage.shape[d]

\* the indices of the points that round to voxel v
PointsAt(v) ==
    {i \in 0 .. (PtlPoints.shape[1] - 1) :
        RoundedVoxel(PtlPoints, i, Len(PtlImage.shape)) = v}

\* C2: for a 2-D or 3-D image and in-range non-negative points the call returns
\* a volume of the image's shape holding, at every voxel, 0 when no point rounds
\* to it and otherwise i + 1 for the highest index i among the points that do.
C2_LabelsAtRoundedVoxels ==
    C2_Pre =>
        /\ last.exc = "none"
        /\ heap[last.ret].shape = PtlImage.shape
        /\ \A v \in Idx(PtlImage.shape) :
             heap[last.ret].data[v] =
                IF PointsAt(v) = {} THEN 0
                ELSE 1 + CHOOSE i \in PointsAt(v) : \A j \in PointsAt(v) : j <= i

\* two points share a voxel and the later one's label is what the voxel holds
C2_Witness ==
    /\ C2_Pre
    /\ last.exc = "none"
    /\ \E v \in Idx(PtlImage.shape) :
          PointsAt(v) = {0, 1} /\ heap[last.ret].data[v] = 2

\* voxel values a reference image may hold
ImageValues == 0 .. (MaxLabel + 1)

\* the last call, made again from the same heap with the reference image at
\* address img holding other voxel values
PtlAgain(image) ==
    points_to_labels(WithObject(HeapBefore, last.args[2], image),
                     last.args[1], last.args[2])

StbvAgain(image) ==
    surface_to_binary_volume(WithObject(HeapBefore, last.args[2], image),
                             last.args[1], last.args[2], last.lib)

\* the same exception, or the same returned value
SameOutcome(r) ==
    /\ r.exc = last.exc
    /\ r.exc = "none" => r.heap[r.ret] = heap[last.ret]

\* C3: points_to_labels and surface_to_binary_volume use the reference image
\* only for its size: the result has the shape of as_large_as_image, and a call
\* that differs only in the image's voxel values returns the same result.
C3_ImageOnlySizes ==
    /\ last.op = "points_to_labels" =>
          /\ last.exc = "none" => heap[last.ret].shape = PtlImage.shape
          /\ \A image \in Variants(PtlImage, ImageValues) : SameOutcome(PtlAgain(image))
    /\ last.op = "surface_to_binary_volume" =>
          /\ last.exc = "none" => heap[last.ret].shape = heap[last.args[2]].shape
          /\ \A image \in Variants(heap[last.args[2]], ImageValues) :
                SameOutcome(StbvAgain(image))

\* a rendered volume that differs from a reference image holding non-zero voxels
C3_Witness ==
    /\ last.op = "surface_to_binary_volume"
    /\ last.exc = "none"
    /\ \E i \in DOMAIN heap[last.ret].data :
          heap[last.args[2]].data[i] # 0 /\ heap[last.ret].data[i] = 0
    /\ \E i \in DOMAIN heap[last.ret].data : heap[last.ret].data[i] # 0

\* C4: no call changes an object it was given or one the caller holds, and
\* what it returns is a new object.
C4_ArgumentsNotMutated ==
    [][/\ \A a \in Reachable(heap, InputAddrs \cup Range(last'.args)) :
             a \in DOMAIN heap' /\ heap'[a] = heap[a]
       /\ last'.ret # None =>
             last'.ret \notin Reachable(heap, InputAddrs \cup Range(last'.args))]_vars

\* labels were written next to a reference image that holds other values, in
\* a call that was handed the result of an earlier call
C4_Witness ==
    /\ last.op = "points_to_labels"
    /\ last.chained
    /\ last.exc = "none"
    /\ \E i \in DOMAIN heap[last.ret].data :
          heap[last.ret].data[i] # 0 /\ heap[last.ret].data[i] # PtlImage.data[i]

\* the voxels of a label volume that hold the given label
VoxelsOf(labels, label) == {i \in DOMAIN labels.data : labels.data[i] = label}

PositiveLabels(labels) == {v \in Range(labels.data) : v > 0}

\* the positive label with the most voxels, the smallest such label on a tie
LargestLabel(labels) ==
    CHOOSE v \in PositiveLabels(labels) :
        \A w \in PositiveLabels(labels) :
            \/ Cardinality(VoxelsOf(labels, w)) < Cardinality(VoxelsOf(labels, v))
            \/ Cardinality(VoxelsOf(labels, w)) = Cardinality(VoxelsOf(labels, v)) /\ v <= w

\* what label_to_surface returns for the labels of the last call
SurfaceOfLabel(labels, label_id) ==
    LET r == label_to_surface(WithObject(HeapBefore, last.args[1], labels),
                              last.args[1], label_id)
    IN  SurfaceValue(r.heap, r.ret)

\* C6: for a label volume with a positive label, largest_label_to_surface
\* returns label_to_surface of the positive label with the greatest voxel
\* count, the smallest label value among those sharing that count.
C6_LargestLabelSelected ==
    (last.op = "largest_label_to_surface"
     /\ PositiveLabels(heap[last.args[1]]) # {}) =>
        /\ last.exc = "none"
        /\ LargestLabel(heap[last.args[1]]) > 0
        /\ SurfaceValue(heap, last.ret) =
              SurfaceOfLabel(heap[last.args[1]], LargestLabel(heap[last.args[1]]))

\* two labels share the greatest voxel count
C6_Witness ==
    /\ last.op = "largest_label_to_surface"
    /\ last.exc = "none"
    /\ \E v, w \in PositiveLabels(heap[last.args[1]]) :
          /\ v < w
          /\ Cardinality(VoxelsOf(heap[last.args[1]], v))
                = Cardinality(VoxelsOf(heap[last.args[1]], w))
          /\ v = LargestLabel(heap[last.args[1]])

\* C7: the mask label_to_surface hands to marching cubes is true exactly at
\* the voxels equal to label_id, and a label volume of the same shape with the
\* same voxels equal to label_id yields the same surface.
C7_OnlyTheLabelCounts ==
    last.op = "label_to_surface" =>
        /\ last.lib.shape = heap[last.args[1]].shape
        /\ \A i \in DOMAIN last.lib.data :
              (last.lib.data[i] = 1) <=> (heap[last.args[1]].data[i] = last.params[1])
        /\ \A other \in Variants(heap[last.args[1]], ImageValues) :
              VoxelsOf(other, last.params[1])
                    = VoxelsOf(heap[last.args[1]], last.params[1])
              => SurfaceOfLabel(other, last.params[1]) = SurfaceValue(heap, last.ret)

\* the label is present, next to voxels of a greater and of no label
C7_Witness ==
    /\ last.op = "label_to_surface"
    /\ VoxelsOf(heap[last.args[1]], last.params[1]) # {}
    /\ \E i \in DOMAIN heap[last.args[1]].data :
          heap[last.args[1]].data[i] > last.params[1]
    /\ \E i \in DOMAIN heap[last.args[1]].data : heap[last.args[1]].data[i] = 0
    /\ last.params[1] > 0

\* the parameters and the radii of a ball pivoting call
BallRadius == last.params[1]

BallDelta == last.params[2]

Positive(x) == x.n > 0

\* the radii list the documentation describes
DocumentedRadii ==
    /\ BallDelta = F(0, 0) => last.lib = <<BallRadius>>
    /\ BallDelta # F(0, 0) =>
          last.lib = <<FSub(BallRadius, BallDelta), BallRadius,
                       FAdd(BallRadius, BallDelta)>>

\* C8 (as claimed): the radii handed to ball pivoting are
\* [radius - delta_radius, radius, radius + delta_radius] for a non-zero
\* delta_radius and [radius] for delta_radius 0, and every one is positive.
C8_RadiiDocumentedAndPositive ==
    last.op = "surface_from_point_cloud_ball_pivoting" =>
        /\ DocumentedRadii
        /\ \A k \in 1 .. Len(last.lib) : Positive(last.lib[k])

\* C8 (amended): the radii are as documented, and they are all positive
\* exactly when radius exceeds the magnitude of delta_radius.
C8_RadiiPositiveIffRadiusExceedsDelta ==
    last.op = "surface_from_point_cloud_ball_pivoting" =>
        /\ DocumentedRadii
        /\ (\A k \in 1 .. Len(last.lib) : Positive(last.lib[k]))
              <=> FLess([n |-> Abs(BallDelta.n), k |-> BallDelta.k], BallRadius)

\* three positive radii around the given one
C8_Witness ==
    /\ last.op = "surface_from_point_cloud_ball_pivoting"
    /\ BallDelta # F(0, 0)
    /\ Len(last.lib) = 3
    /\ \A k \in 1 .. 3 : Positive(last.lib[k])
    /\ FLess(last.lib[1], last.lib[2]) /\ FLess(last.lib[2], last.lib[3])

\* the surface handed to the last isotropic_scale_surface call and its result
ScaleIn == heap[last.args[1]]

ScaleOut == heap[last.ret]

ScaleFactor == last.params[1]

\* every face index is an index into the vertex array of the tuple t
FacesValid(t) ==
    \A i \in DOMAIN heap[t.items[2]].data :
        /\ 0 <= heap[t.items[2]].data[i]
        /\ heap[t.items[2]].data[i] < heap[t.items[1]].shape[1]

\* what the call does to one surface: vertices multiplied, the rest kept
ScaledAsStated ==
    /\ last.exc = "none"
    /\ Len(ScaleOut.items) = Len(ScaleIn.items)
    /\ Len(ScaleOut.items) \in {2, 3}
    /\ \A k \in 2 .. Len(ScaleIn.items) :
          heap[ScaleOut.items[k]] = heap[ScaleIn.items[k]]
    /\ heap[ScaleOut.items[1]].shape = heap[ScaleIn.items[1]].shape
    /\ \A i \in DOMAIN heap[ScaleIn.items[1]].data :
          heap[ScaleOut.items[1]].data[i]
              = FMul(heap[ScaleIn.items[1]].data[i], ScaleFactor)
    /\ FacesValid(ScaleIn) => FacesValid(ScaleOut)
    /\ ScaleFactor = F(1, 0) => SurfaceValue(heap, last.ret) = SurfaceValue(heap, last.args[1])

\* the vertices after scaling by the call's factor and then by b, and after
\* scaling once by the product
TwiceScaled(b) == np_mul(np_mul(heap[ScaleIn.items[1]], ScaleFactor), b)

OnceScaled(b) == np_mul(heap[ScaleIn.items[1]], FMul(ScaleFactor, b))

\* the float product x * y is the exact product
ExactMul(x, y) ==
    FMul(x, y).n * (2 ^ (x.k + y.k)) = x.n * y.n * (2 ^ FMul(x, y).k)

\* C9 (as claimed): the result has the input's vertices times f, its other
\* components unchanged, the same length and vertex count; valid faces stay
\* valid; scaling by 1 changes nothing; scaling by a then b is scaling by a*b.
C9_ScaleComposes ==
    last.op = "isotropic_scale_surface" =>
        /\ ScaledAsStated
        /\ \A b \in ScaleFactors : TwiceScaled(b) = OnceScaled(b)

\* C9 (amended): as claimed, except that scaling by a then b equals scaling
\* by a*b when the products x*a of every coordinate and a*b are exact floats.
C9_ScaleComposesWhenExact ==
    last.op = "isotropic_scale_surface" =>
        /\ ScaledAsStated
        /\ \A b \in ScaleFactors :
              (/\ ExactMul(ScaleFactor, b)
               /\ \A i \in DOMAIN heap[ScaleIn.items[1]].data :
                     ExactMul(heap[ScaleIn.items[1]].data[i], ScaleFactor))
              => TwiceScaled(b) = OnceScaled(b)

\* a surface with values scaled twice, by factors other than 1 whose products
\* are exact
C9_Witness ==
    /\ last.op = "isotropic_scale_surface"
    /\ last.chained
    /\ Len(ScaleIn.items) = 3
    /\ ScaleFactor # F(1, 0)
    /\ \E i \in DOMAIN heap[ScaleIn.items[1]].data :
          heap[ScaleOut.items[1]].data[i] # heap[ScaleIn.items[1]].data[i]
    /\ \E b \in ScaleFactors \ {F(1, 0)} :
          /\ ExactMul(ScaleFactor, b)
          /\ \A i \in DOMAIN heap[ScaleIn.items[1]].data :
                ExactMul(heap[ScaleIn.items[1]].data[i], ScaleFactor)

\* the vertices and the image of the last surface_to_binary_volume call
StbvVertices == heap[heap[last.args[1]].items[1]]

StbvImage == heap[last.args[2]]

\* the integer bounding box of the mesh on axis k: [trunc(min), trunc(max))
BoxLow(k) == Trunc(FMinOf(Column(StbvVertices, k)))

BoxHigh(k) == Trunc(FMaxOf(Column(StbvVertices, k)))

\* every vertex lies inside the image
BoxInsideImage ==
    /\ StbvVertices.shape[1] > 0
    /\ Len(StbvImage.shape) = 3
    /\ \A k \in 1 .. 3 :
          \A c \in Column(StbvVertices, k) :
             c.n >= 0 /\ ~FLess(F(StbvImage.shape[k], 0), c)

\* C10: a volume returned by surface_to_binary_volume has the size of
\* as_large_as_image, and for a mesh inside the image every non-zero voxel
\* lies in the integer bounding box of the vertices.
C10_NonZeroInsideBoundingBox ==
    (last.op = "surface_to_binary_volume" /\ last.exc = "none") =>
        /\ heap[last.ret].shape = StbvImage.shape
        /\ BoxInsideImage =>
              \A i \in DOMAIN heap[last.ret].data :
                 heap[last.ret].data[i] # 0 =>
                    \A k \in 1 .. 3 : BoxLow(k) <= i[k] /\ i[k] < BoxHigh(k)

\* a rendered mesh with a non-zero voxel, a zero voxel inside its box and
\* voxels outside the box
C10_Witness ==
    /\ last.op = "surface_to_binary_volume"
    /\ last.exc = "none"
    /\ BoxInsideImage
    /\ \E i \in DOMAIN heap[last.ret].data : heap[last.ret].data[i] # 0
    /\ \E i \in DOMAIN heap[last.ret].data :
          /\ heap[last.ret].data[i] = 0
          /\ \A k \in 1 .. 3 : BoxLow(k) <= i[k] /\ i[k] < BoxHigh(k)
    /\ \E i \in DOMAIN heap[last.ret].data : \E k \in 1 .. 3 : i[k] >= BoxHigh(k)

\* the operations that hand a surface to open3d as a mesh, and those that
\* build a surface from a point cloud
MeshOps ==
    {"convex_hull", "filter_smooth_simple", "filter_smooth_laplacian",
     "filter_smooth_taubin", "simplify_vertex_clustering",
     "simplify_quadric_decimation", "subdivide_loop"}

CloudOps ==
    {"points_to_convex_hull_surface", "surface_from_point_cloud_alpha_shape",
     "surface_from_point_cloud_ball_pivoting"}

\* the mesh open3d returned to the last call, read back from the result
MeshReturned ==
    [vertices |-> heap[heap[last.ret].items[1]],
     triangles |-> heap[heap[last.ret].items[2]]]

\* the last mesh operation made again from the heap h, open3d returning the
\* same mesh
MeshOpAgain(h) ==
    CASE last.op = "convex_hull" -> convex_hull(h, last.args[1], MeshReturned)
      [] last.op = "filter_smooth_simple" ->
            filter_smooth_simple(h, last.args[1], last.params[1], MeshReturned)
      [] last.op = "filter_smooth_laplacian" ->
            filter_smooth_laplacian(h, last.args[1], last.params[1], MeshReturned)
      [] last.op = "filter_smooth_taubin" ->
            filter_smooth_taubin(h, last.args[1], last.params[1], MeshReturned)
      [] last.op = "simplify_vertex_clustering" ->
            simplify_vertex_clustering(h, last.args[1], last.params[1], MeshReturned)
      [] last.op = "simplify_quadric_decimation" ->
            simplify_quadric_decimation(h, last.args[1], last.params[1], MeshReturned)
      [] last.op = "subdivide_loop" ->
            subdivide_loop(h, last.args[1], last.params[1], MeshReturned)

\* per-vertex values a surface may carry
VertexValues == {F(0, 0), F(1, 0), F(5, 0)}

\* the heap the last call started from, with the surface at address s carrying
\* other per-vertex values, none at all, or values where it had none
ValueVariants(s) ==
    LET h     == HeapBefore
        items == h[s].items
    IN  IF Len(items) > 2
        THEN {WithObject(h, items[3], v) : v \in Variants(h[items[3]], VertexValues)}
             \cup {WithObject(h, s, [kind |-> "tuple", items |-> SubSeq(items, 1, 2)])}
        ELSE {LET a == FreshAddr(h)
              IN  WithObject(Store(h, a, NdArray(<<h[items[1]].shape[1]>>, "float",
                                                 [i \in Idx(<<h[items[1]].shape[1]>>) |-> v])),
                             s, [kind |-> "tuple", items |-> Append(items, a)]) :
                 v \in VertexValues}

\* the returned surface is (vertices, faces, values) with one value 1 per vertex
OnesPerVertex ==
    /\ last.exc = "none"
    /\ heap[last.ret].kind = "tuple"
    /\ Len(heap[last.ret].items) = 3
    /\ heap[heap[last.ret].items[3]].shape = <<heap[heap[last.ret].items[1]].shape[1]>>
    /\ \A i \in DOMAIN heap[heap[last.ret].items[3]].data :
          heap[heap[last.ret].items[3]].data[i] = F(1, 0)

\* C11: every surface built by to_surface is a triple whose values array holds
\* one entry per vertex, each equal to 1; and a mesh operation called on a
\* surface that differs only in its per-vertex values hands open3d the same
\* mesh and arguments and returns the same surface.
C11_ValuesAreOnesAndIgnored ==
    /\ last.op \in MeshOps \cup CloudOps => OnesPerVertex
    /\ last.op \in MeshOps =>
          \A h \in ValueVariants(last.args[1]) :
             /\ MeshOpAgain(h).lib = last.lib
             /\ MeshOpAgain(h).exc = last.exc
             /\ SurfaceValue(MeshOpAgain(h).heap, MeshOpAgain(h).ret)
                   = SurfaceValue(heap, last.ret)

\* a mesh operation on a surface carrying values other than 1 that returned a
\* surface with vertices
C11_Witness ==
    /\ last.op \in MeshOps
    /\ last.exc = "none"
    /\ Len(heap[last.args[1]].items) = 3
    /\ \E i \in DOMAIN heap[heap[last.args[1]].items[3]].data :
          heap[heap[last.args[1]].items[3]].data[i] # F(1, 0)
    /\ heap[heap[last.ret].items[1]].shape[1] > 0
    /\ heap[heap[last.ret].items[3]].shape[1] = heap[heap[last.ret].items[1]].shape[1]

\* point i rounds to a voxel outside the image on some axis
RoundsOutside(i) ==
    \E d \in 1 .. Len(PtlImage.shape) :
       \/ RoundedVoxel(PtlPoints, i, Len(PtlImage.shape))[d] < 0
       \/ RoundedVoxel(PtlPoints, i, Len(PtlImage.shape))[d] >= PtlImage.shape[d]

\* C12 (as claimed): for a 2-D or 3-D image, a points_to_labels call fails with
\* IndexError when some point rounds to a voxel outside the image, too large or
\* negative, and a returned volume holds a label i + 1 only at the voxel
\* point i rounds to.
C12_LabelsOnlyAtRoundedVoxels ==
    (/\ last.op = "points_to_labels"
     /\ Len(PtlImage.shape) \in {2, 3}
     /\ PtlPoints.shape[2] >= Len(PtlImage.shape)) =>
        /\ (\E i \in 0 .. (PtlPoints.shape[1] - 1) : RoundsOutside(i))
              => last.exc = "IndexError"
        /\ last.exc = "none" =>
              \A v \in Idx(PtlImage.shape) :
                 heap[last.ret].data[v] # 0 =>
                    RoundedVoxel(PtlPoints, heap[last.ret].data[v] - 1,
                                 Len(PtlImage.shape)) = v

====
